---- MODULE Spec2Model ----
(***************************************************************************)
(* Model of md_image.py (sublime-MarkdownImages): the ImageHandler render  *)
(* pass (show_images), hide_images, on_close, the event listener triggers  *)
(* and the pure helpers they use (region merging, attribute extraction,    *)
(* width capping, image header sniffing).                                  *)
(*                                                                         *)
(* Text is a sequence of one-character strings.  Offsets are 0-based as    *)
(* in the editor API: a region [a, b) of a document d is the subsequence   *)
(* d[a+1 .. b].  Bytes are integers 0..255.                                *)
(***************************************************************************)
EXTENDS Integers, Sequences, FiniteSets, TLC

\* ------------------------------------------------------------------------
\* Generic helpers on sequences
\* ------------------------------------------------------------------------

Range(s) == {s[i] : i \in DOMAIN s}

Last(s) == s[Len(s)]

Front(s) == SubSeq(s, 1, Len(s) - 1)

Max(S) == CHOOSE x \in S : \A y \in S : y <= x

Min2(a, b) == IF a <= b THEN a ELSE b

\* The value of Body at v, with v computed once
With(v, Body(_)) == CHOOSE r \in {Body(x) : x \in {v}} : TRUE

\* All sequences over S of length 0..n
RECURSIVE SeqsUpTo(_, _)
SeqsUpTo(S, n) ==
    IF n = 0 THEN {<<>>}
    ELSE LET shorter == SeqsUpTo(S, n - 1)
         IN  shorter \cup {Append(s, x) : s \in {t \in shorter : Len(t) = n - 1}, x \in S}

\* ------------------------------------------------------------------------
\* get_image_size: header sniffing over a byte stream
\* ------------------------------------------------------------------------

\* b'\x89PNG\r\n\x1a\n'
PngSignature == <<137, 80, 78, 71, 13, 10, 26, 10>>

Gif87a == <<71, 73, 70, 56, 55, 97>>
Gif89a == <<71, 73, 70, 56, 57, 97>>
JFIF == <<74, 70, 73, 70>>
Exif == <<69, 120, 105, 102>>
SvgPrefix == <<60, 115, 118, 103>>

\* Python slice data[a:b] with 0 <= a <= b (clipped at the end of data)
Slice(data, a, b) == SubSeq(data, a + 1, Min2(b, Len(data)))

\* imghdr.what('', head) restricted to the answers the caller distinguishes;
\* imghdr tries jpeg, then png, then gif.
imghdr_what(head) ==
    IF Slice(head, 6, 10) \in {JFIF, Exif} THEN "jpeg"
    ELSE IF Slice(head, 0, 8) = PngSignature THEN "png"
    ELSE IF Slice(head, 0, 6) \in {Gif87a, Gif89a} THEN "gif"
    ELSE "other"

\* struct.unpack('>H'): big-endian unsigned 16 bit
BE16(b) == b[1] * 256 + b[2]

\* struct.unpack('<H'): little-endian unsigned 16 bit
LE16(b) == b[1] + b[2] * 256

\* struct.unpack('>i'): big-endian signed 32 bit
BE32s(b) ==
    LET hi == IF b[1] >= 128 THEN b[1] - 256 ELSE b[1]     \* two's complement
    IN  ((hi * 256 + b[2]) * 256 + b[3]) * 256 + b[4]

\* Results of get_image_size.  raised: an exception leaves the function;
\* file_type "" is None; geo = FALSE means width and height are None.
SizeRaise == [raised |-> TRUE, file_type |-> "", geo |-> FALSE, w |-> 0, h |-> 0]
SizeNone(ft) == [raised |-> FALSE, file_type |-> ft, geo |-> FALSE, w |-> 0, h |-> 0]
SizeOf(ft, width, height) ==
    [raised |-> FALSE, file_type |-> ft, geo |-> TRUE, w |-> width, h |-> height]

\* Skip the 0xff fill bytes: position of the first byte at or after pos that
\* is not 0xff, or Len(data) when the stream ends first (positions 0-based).
RECURSIVE SkipFill(_, _)
SkipFill(data, pos) ==
    IF pos >= Len(data) THEN Len(data)
    ELSE IF data[pos + 1] = 255 THEN SkipFill(data, pos + 1)
    ELSE pos

\* The JPEG marker scan: pos is the stream position, size the pending skip.
\* Every failed read or seek is caught and gives (None, None, "jpeg").
RECURSIVE JpegScan(_, _, _)
JpegScan(data, pos, size) ==
    LET target == pos + size                \* f.seek(size, 1)
    IN  IF target < 0 THEN SizeNone("jpeg")  \* a failed seek is caught too
        ELSE
        LET mpos == SkipFill(data, target)   \* f.read(1) until not 0xff
        IN  IF mpos >= Len(data) THEN SizeNone("jpeg")   \* ord(b'') raises
            ELSE
            LET ftype == data[mpos + 1]
                lenb  == Slice(data, mpos + 1, mpos + 3)
            IN  IF Len(lenb) < 2 THEN SizeNone("jpeg")   \* struct.error
                ELSE IF ftype >= 192 /\ ftype <= 207
                THEN \* SOFn: skip the precision byte, read height, width
                     LET dims == Slice(data, mpos + 4, mpos + 8)
                     IN  IF Len(dims) < 4 THEN SizeNone("jpeg")
                         ELSE SizeOf("jpeg", BE16(SubSeq(dims, 3, 4)),
                                             BE16(SubSeq(dims, 1, 2)))
                ELSE JpegScan(data, mpos + 3, BE16(lenb) - 2)

get_image_size(data) ==
    LET head == Slice(data, 0, 24)
        what == imghdr_what(head)
    IN  IF what = "png"
        THEN IF BE32s(Slice(head, 4, 8)) # 218765834    \* 0x0d0a1a0a
             THEN SizeNone("png")
             ELSE IF Len(Slice(head, 16, 24)) < 8 THEN SizeRaise  \* struct.error
             ELSE SizeOf("png", BE32s(Slice(head, 16, 20)), BE32s(Slice(head, 20, 24)))
        ELSE IF what = "gif"
        THEN IF Len(Slice(head, 6, 10)) < 4 THEN SizeRaise        \* struct.error
             ELSE SizeOf("gif", LE16(Slice(head, 6, 8)), LE16(Slice(head, 8, 10)))
        ELSE IF what = "jpeg"
        THEN JpegScan(data, 0, 2)
        ELSE IF Slice(head, 0, 4) = SvgPrefix
        THEN SizeNone("")                   \* SVG is not rendered
        ELSE SizeNone("")

\* ------------------------------------------------------------------------
\* The editor's view of a document (sublime.View, sublime.Region)
\* ------------------------------------------------------------------------

\* Characters in the scope markup.underline.link.image.markdown.  "h" stands
\* for a remote scheme prefix (http://), "f" for the file: scheme prefix,
\* "s" for the suffix .svg, "a" and "b" are ordinary path characters, ">"
\* is the closing bracket the tokenizer leaves at the end of a link and "u"
\* is a path character that cannot be decoded.
LinkChars == {"h", "f", "a", "b", "s", ">", "u"}

\* Text the editor cannot decode: view.substr of a region holding one of
\* these raises UnicodeDecodeError.  "u" lies inside a link, "?" outside.
UndecodableChars == {"u", "?"}

undecodable(text) == \E i \in DOMAIN text : text[i] \in UndecodableChars

\* str.isspace() characters used in documents
SpaceChars == {" ", "\t", "\n"}

Region(a, b) == [a |-> a, b |-> b]

\* sublime.Region.cover
cover(r1, r2) == Region(Min2(r1.a, r2.a), IF r1.b >= r2.b THEN r1.b ELSE r2.b)

\* view.substr(region)
substr(doc, r) == SubSeq(doc, r.a + 1, r.b)

\* Faulty variant of isspace: some character is whitespace
isspace_any(s) == \E i \in DOMAIN s : s[i] \in SpaceChars

\* str.isspace(): non-empty and only whitespace
isspace(s) == Len(s) > 0 /\ \A i \in DOMAIN s : s[i] \in SpaceChars

\* view.find_by_selector(selector): the maximal runs of link characters, in
\* document order
find_by_selector(doc) ==
    LET IsLink(i) == i >= 1 /\ i <= Len(doc) /\ doc[i] \in LinkChars
        starts == {i \in DOMAIN doc : IsLink(i) /\ ~IsLink(i - 1)}
        EndOf(i) == CHOOSE j \in i..Len(doc) :
                        /\ \A k \in i..j : IsLink(k)
                        /\ ~IsLink(j + 1)
        RECURSIVE Ordered(_)
        Ordered(S) == IF S = {} THEN <<>>
                      ELSE LET m == CHOOSE x \in S : \A y \in S : x <= y
                           IN  <<Region(m - 1, EndOf(m))>> \o Ordered(S \ {m})
    IN  Ordered(starts)

\* view.line(region): from the start of the line holding region.a to the end
\* of the line holding region.b, the line break excluded
line(doc, r) ==
    LET begin == Max({0} \cup {q \in 1..r.a : doc[q] = "\n"})
        ends  == {q \in r.b..(Len(doc) - 1) : doc[q + 1] = "\n"}
        end   == IF ends = {} THEN Len(doc)
                 ELSE CHOOSE q \in ends : \A x \in ends : q <= x
    IN  Region(begin, end)

\* ------------------------------------------------------------------------
\* show_images, lines 113-137: merging links split at spaces
\* ------------------------------------------------------------------------

\* The indexes i + 1 (0-based) whose region is to be merged into the one
\* before it: the text between img_regs[i] and img_regs[i + 1] is all spaces.
\* A UnicodeDecodeError of substr is caught (line 128): no merge.
indexes_to_merge(doc, img_regs) ==
    {i + 1 : i \in {k \in 0..(Len(img_regs) - 2) :
                       LET inter == substr(doc, Region(img_regs[k + 1].b, img_regs[k + 2].a))
                       IN  ~undecodable(inter) /\ isspace(inter)}}

RECURSIVE MergeFrom(_, _, _, _)
MergeFrom(img_regs, to_merge, i, new_img_regs) ==
    IF i >= Len(img_regs) THEN new_img_regs
    ELSE IF i \in to_merge
    THEN MergeFrom(img_regs, to_merge, i + 1,
                   [new_img_regs EXCEPT ![Len(new_img_regs)] =
                        cover(new_img_regs[Len(new_img_regs)], img_regs[i + 1])])
    ELSE MergeFrom(img_regs, to_merge, i + 1, Append(new_img_regs, img_regs[i + 1]))

\* img_regs after the merge loop
merged_regions(doc) ==
    LET img_regs == find_by_selector(doc)
    IN  MergeFrom(img_regs, indexes_to_merge(doc, img_regs), 0, <<>>)

\* ------------------------------------------------------------------------
\* get_provided_img_attributes and get_adjusted_img_attributes
\* ------------------------------------------------------------------------

\* re.match(r'.*\)\{(.*)\}', s): the first .* is greedy, so the match uses
\* the last "){" that still has a "}" after it, and the group is greedy, so
\* it runs to the last "}".  "." does not match a line break.
\* Result: <<matched, group>>.
regex_match_attributes(s) ==
    LET NoBreak(lo, hi) == \A k \in lo..hi : s[k] # "\n"
        opens == {i \in 1..(Len(s) - 2) :
                    /\ s[i] = ")"
                    /\ s[i + 1] = "{"
                    /\ NoBreak(1, i - 1)
                    /\ \E j \in (i + 2)..Len(s) : s[j] = "}" /\ NoBreak(i + 2, j - 1)}
    IN  IF opens = {} THEN <<FALSE, <<>>>>
        ELSE LET i == Max(opens)
                 j == Max({k \in (i + 2)..Len(s) : s[k] = "}" /\ NoBreak(i + 2, k - 1)})
             IN  <<TRUE, SubSeq(s, i + 2, j - 1)>>

get_provided_img_attributes(doc, line_region, link_region) ==
    LET full_line == substr(doc, line_region)
        link_till_eol == SubSeq(full_line, link_region.a - line_region.a + 1, Len(full_line))
        m == regex_match_attributes(link_till_eol)
    IN  IF m[1] THEN m[2] ELSE <<>>

\* The configured img_maxwidth: unset (None) or a number
NoneWidth == [set |-> FALSE, v |-> 0]
WidthOf(n) == [set |-> TRUE, v |-> n]

DefaultMaxWidth == 1024

\* show_images, lines 109-110
effective_max_width(max_width) ==
    IF ~max_width.set \/ max_width.v = 0 \/ max_width.v < 0
    THEN DefaultMaxWidth ELSE max_width.v

\* Attribute strings put in the markup.  kind "literal": the text of the
\* brace block; "computed": width="w" height="hnum/hden" (the height is the
\* exact quotient; floating-point rounding is not modelled); "empty": ''.
AttrLiteral(text) == [kind |-> "literal", text |-> text, w |-> 0, hnum |-> 0, hden |-> 1]
AttrComputed(w, hnum, hden) ==
    [kind |-> "computed", text |-> <<>>, w |-> w, hnum |-> hnum, hden |-> hden]
AttrEmpty == [kind |-> "empty", text |-> <<>>, w |-> 0, hnum |-> 0, hden |-> 1]

\* Faulty variant of computed_attributes: the width is capped and the height
\* is left as detected
computed_unscaled_height(h, w, max_width) ==
    IF w > 0 /\ h > 0
    THEN IF max_width # 0 /\ w > max_width
         THEN AttrComputed(max_width, h, 1)
         ELSE AttrComputed(w, h, 1)
    ELSE AttrEmpty

\* Lines 240-245 once no attributes were provided and w, h are numbers
computed_attributes(h, w, max_width) ==
    IF w > 0 /\ h > 0
    THEN IF max_width # 0 /\ w > max_width
         THEN AttrComputed(max_width, h * max_width, w)
         ELSE AttrComputed(w, h, 1)
    ELSE AttrEmpty

\* Result [raised, attrs].  With no provided attributes and w = None the
\* comparison w > 0 raises TypeError.
get_adjusted_img_attributes(size, max_width, doc, line_region, region) ==
    LET provided == get_provided_img_attributes(doc, line_region, region)
    IN  IF provided # <<>> THEN [raised |-> FALSE, attrs |-> AttrLiteral(provided)]
        ELSE IF ~size.geo THEN [raised |-> TRUE, attrs |-> AttrEmpty]
        ELSE [raised |-> FALSE, attrs |-> computed_attributes(size.h, size.w, max_width)]

\* ------------------------------------------------------------------------
\* Dictionaries (collections.defaultdict, dict) as functions on their keys
\* ------------------------------------------------------------------------

EmptyDict == <<>>

dict_get(d, k, default) == IF k \in DOMAIN d THEN d[k] ELSE default

dict_set(d, k, v) == [x \in DOMAIN d \cup {k} |-> IF x = k THEN v ELSE d[x]]

dict_pop(d, k) == [x \in DOMAIN d \ {k} |-> d[x]]

\* defaultdict.__getitem__ inserts the default for a missing key
dict_touch(d, k, default) == IF k \in DOMAIN d THEN d ELSE dict_set(d, k, default)

\* ------------------------------------------------------------------------
\* Image contents used by the environment
\* ------------------------------------------------------------------------

\* IHDR chunk start: length 13 and the chunk name
PngIhdr == <<0, 0, 0, 13, 73, 72, 68, 82>>

\* a 3 x 2 PNG header
PngSmall == PngSignature \o PngIhdr \o <<0, 0, 0, 3, 0, 0, 0, 2>>

\* a 4 x 1 GIF header
GifSmall == Gif89a \o <<4, 0, 1, 0>>

\* a JPEG with an APP0 segment and no start-of-frame marker
JpegNoFrame == <<255, 216, 255, 224, 0, 16>> \o JFIF \o <<0>>

\* bytes of no recognised format
Junk == <<0>>

\* ------------------------------------------------------------------------
\* Resolving one link: urlparse, prepare_local_image, prepare_remote_image
\* ------------------------------------------------------------------------

\* The ids of the views (view.id()): one view is open
ViewIds == {1}

\* Directory prefixes: the folder of the view's file and the base_path
\* setting.  A path is absolute when it starts with one of them.
ViewFolder == "/D/"
BaseFolder == "/B/"

isabs(path) == path # <<>> /\ path[1] \in {ViewFolder, BaseFolder}

\* os.path.join
path_join(dir, path) == IF isabs(path) THEN path ELSE dir \o path

\* get_path_for(view): the directory of the view's file
get_path_for(view) == <<ViewFolder>>

\* urllib.parse.urlparse: the scheme and the rest
urlparse(rel_p) ==
    IF rel_p # <<>> /\ rel_p[1] = "h" THEN [scheme |-> "http", path |-> Tail(rel_p)]
    ELSE IF rel_p # <<>> /\ rel_p[1] = "f" THEN [scheme |-> "file", path |-> Tail(rel_p)]
    ELSE [scheme |-> "", path |-> rel_p]

NoUrl == [scheme |-> "", path |-> <<>>]

\* Faulty variant of ends_with_svg: no path is taken for an SVG
never_svg(path) == FALSE

\* url.path.endswith('.svg')
ends_with_svg(path) == path # <<>> /\ Last(path) = "s"

\* The src attribute: a file URL, or a data URL carrying the base64 text of
\* the payload bytes
FileSrc(url) == [kind |-> "url", url |-> url, file_type |-> "", payload |-> <<>>]
DataSrc(file_type, data) ==
    [kind |-> "data", url |-> NoUrl, file_type |-> file_type, payload |-> data]

\* Outcome of preparing one image.  outcome is "skip" (SkipImageException),
\* "raise" (any other exception) or "ok".  cache is cached_remote_urls after
\* the call, fetched the URLs handed to urlopen (ok: bytes came back,
\* in_cache: the cache held the URL at that time), read the files opened.
Prepared(outcome, img_src, size, url, has_data, image_data, cache, fetched, read) ==
    [outcome |-> outcome, img_src |-> img_src, size |-> size, url |-> url,
     has_data |-> has_data, image_data |-> image_data, cache |-> cache,
     fetched |-> fetched, read |-> read]

NotPrepared(outcome, cache, fetched, read) ==
    Prepared(outcome, FileSrc(NoUrl), SizeNone(""), NoUrl, FALSE, <<>>, cache, fetched, read)

\* The server's answer for a URL: urlopen fails, read fails, or bytes
NetOpenError == [kind |-> "open_error", data |-> <<>>]
NetReadError == [kind |-> "read_error", data |-> <<>>]
NetData(data) == [kind |-> "ok", data |-> data]

urlopen_read(net, rel_p) == IF rel_p \in DOMAIN net THEN net[rel_p] ELSE NetOpenError

prepare_remote_image(cache, net, rel_p, show_remote, url, view) ==
    IF ~show_remote THEN NotPrepared("skip", cache, <<>>, <<>>)
    ELSE IF ends_with_svg(url.path) THEN NotPrepared("skip", cache, <<>>, <<>>)
    ELSE
    LET cache1 == dict_touch(cache, view, EmptyDict)
        cached == dict_get(cache1[view], rel_p, <<>>)
        miss   == cached = <<>>             \* not image_data: None or b''
        resp   == urlopen_read(net, rel_p)
        fetched == IF miss
                   THEN <<[url |-> rel_p, ok |-> resp.kind = "ok",
                           in_cache |-> rel_p \in DOMAIN cache1[view]]>>
                   ELSE <<>>
    IN  IF miss /\ resp.kind # "ok" THEN NotPrepared("raise", cache1, fetched, <<>>)
        ELSE
        LET image_data == IF miss THEN resp.data ELSE cached
            size == get_image_size(image_data)
        IN  IF size.raised THEN NotPrepared("raise", cache1, fetched, <<>>)
            ELSE Prepared("ok", DataSrc(size.file_type, image_data), size, url,
                          TRUE, image_data, cache1, fetched, <<>>)

\* open(file_path, 'rb') succeeds for the files that exist
file_exists(files, file_path) == file_path \in DOMAIN files /\ files[file_path].exists

prepare_local_image(cache, files, base_path, show_local, url, view) ==
    IF ~show_local THEN NotPrepared("skip", cache, <<>>, <<>>)
    ELSE
    LET p1 == IF base_path # <<>> THEN path_join(base_path, url.path) ELSE url.path
        \* normpath changes nothing: these paths hold no "." or ".." part
        file_path == IF ~isabs(p1) THEN path_join(get_path_for(view), p1) ELSE p1
        url1 == [scheme |-> "file", path |-> file_path]
    IN  IF ~file_exists(files, file_path)
        THEN NotPrepared("raise", cache, <<>>, <<file_path>>)
        ELSE
        LET size == get_image_size(files[file_path].data)
        IN  IF size.raised THEN NotPrepared("raise", cache, <<>>, <<file_path>>)
            ELSE Prepared("ok", FileSrc(url1), size, url1, FALSE, <<>>, cache,
                          <<>>, <<file_path>>)

\* ------------------------------------------------------------------------
\* ImageHandler.show_images: the render pass
\* ------------------------------------------------------------------------

\* The host's phantoms of a view: a bag (phantom -> number of copies shown)
EmptyBag == <<>>

bag_add(bag, x) ==
    [y \in DOMAIN bag \cup {x} |->
        IF y = x THEN (IF x \in DOMAIN bag THEN bag[x] + 1 ELSE 1) ELSE bag[y]]

\* view.add_phantom(key, region, html, ...)
add_phantom(host, phantom) == bag_add(host, phantom)

\* view.erase_phantoms(key) for every key of keys: all phantoms of the key go
erase_phantoms(host, keys) == [p \in {q \in DOMAIN host : q.key \notin keys} |-> host[p]]

\* LEADING_WHITESPACE_REGEX.search(line).group(1): length of the run of
\* spaces and tabs at the start
leading_whitespace(text) ==
    Max({n \in 0..Len(text) : \A i \in 1..n : text[i] \in {" ", "\t"}})

\* Arguments of show_images
ShowArgs(max_width, show_local, show_remote, base_path) ==
    [max_width |-> max_width, show_local |-> show_local,
     show_remote |-> show_remote, base_path |-> base_path]

\* One iteration of the loop over the reversed regions (lines 139-213).
\* st: phantoms, cache (the two class dictionaries), host, newp (the local
\* dictionary phantoms), the calls made so far (adds, fetches, reads) and
\* raised (an exception left show_images) with its cause: "prepare" when
\* prepare_local_image or prepare_remote_image raised an Exception,
\* "attributes" when get_adjusted_img_attributes raised, "decode" when
\* view.substr raised UnicodeDecodeError outside a try.
process_region(st, doc, region, args, max_width, view, files, net) ==
    LET line_region == line(doc, region)
        text  == substr(doc, region)
        rel_p == IF Last(text) = ">" THEN Front(text) ELSE text
        url   == urlparse(rel_p)
        Prepare ==
            IF url.scheme # "" /\ url.scheme # "file"
            THEN prepare_remote_image(st.cache, net, rel_p, args.show_remote, url, view)
            ELSE prepare_local_image(st.cache, files, args.base_path, args.show_local, url, view)
        \* lines 184-213: the phantom of a prepared image with its attributes
        Place(st1, prep, attrs) ==
            LET start_point == line_region.a + leading_whitespace(substr(doc, line_region))
                phantom == [key |-> start_point,
                            html |-> [href |-> prep.url, src |-> prep.img_src,
                                      attrs |-> attrs]]
                stored == dict_get(st1.phantoms, view, {})
            IN  IF phantom \in stored
                THEN [st1 EXCEPT !.newp = dict_set(st1.newp, start_point, phantom),
                                 !.phantoms = dict_touch(st1.phantoms, view, {})]
                ELSE [st1 EXCEPT
                        !.newp = dict_set(st1.newp, start_point, phantom),
                        !.host = add_phantom(st1.host, phantom),
                        !.adds = Append(st1.adds, phantom),
                        !.phantoms = dict_set(st1.phantoms, view, stored \cup {phantom}),
                        !.cache = IF prep.has_data
                                  THEN dict_set(st1.cache, view,
                                                dict_set(dict_get(st1.cache, view, EmptyDict),
                                                         rel_p, prep.image_data))
                                  ELSE st1.cache]
        After(prep) ==
            LET st1 == [st EXCEPT !.cache = prep.cache,
                                  !.fetches = st.fetches \o prep.fetched,
                                  !.reads = st.reads \o prep.read]
            IN  IF prep.outcome = "skip" THEN st1
                ELSE IF prep.outcome = "raise"
                THEN [st1 EXCEPT !.raised = TRUE, !.cause = "prepare"]
                ELSE IF prep.size.file_type = "" THEN st1
                \* lines 178-182: UnicodeDecodeError of the line is caught
                ELSE IF undecodable(substr(doc, line_region)) THEN st1
                ELSE With(get_adjusted_img_attributes(prep.size, max_width, doc,
                                                      line_region, region),
                          LAMBDA adj : IF adj.raised
                                       THEN [st1 EXCEPT !.raised = TRUE,
                                                        !.cause = "attributes"]
                                       ELSE Place(st1, prep, adj.attrs))
    IN  \* lines 141-143: view.substr(region) is outside every try
        IF undecodable(text) THEN [st EXCEPT !.raised = TRUE, !.cause = "decode"]
        ELSE With(Prepare, After)

\* for region in reversed(img_regs): regions i, i - 1, ..., 1, until an
\* exception leaves the loop
RECURSIVE process_regions(_, _, _, _, _, _, _, _, _)
process_regions(st, doc, img_regs, i, args, max_width, view, files, net) ==
    IF i = 0 \/ st.raised THEN st
    ELSE With(process_region(st, doc, img_regs[i], args, max_width, view, files, net),
              LAMBDA st1 : process_regions(st1, doc, img_regs, i - 1, args, max_width,
                                           view, files, net))

\* "Erase leftover phantoms" (lines 216-222): the stored phantoms that the
\* local dictionary does not hold under their key
leftover(stored, newp) == {p \in stored : ~(p.key \in DOMAIN newp /\ newp[p.key] = p)}

\* The state show_images works on and what it reports.  ran = FALSE: the
\* call returned at once (both show flags off).  erases: the stored phantoms
\* whose key was handed to erase_phantoms.
PassState(phantoms, cache, host) ==
    [phantoms |-> phantoms, cache |-> cache, host |-> host, newp |-> EmptyDict,
     adds |-> <<>>, erases |-> {}, fetches |-> <<>>, reads |-> <<>>,
     raised |-> FALSE, cause |-> "", ran |-> TRUE]

show_images(phantoms, cache, host, doc, args, view, files, net) ==
    LET st0 == PassState(phantoms, cache, host)
        \* lines 216-222
        EraseLeftover(st1) ==
            LET stored == dict_get(st1.phantoms, view, {})
                stale  == leftover(stored, st1.newp)
                kept   == stored \ stale
            IN  [st1 EXCEPT
                    !.host = erase_phantoms(st1.host, {p.key : p \in stale}),
                    !.erases = stale,
                    !.phantoms = IF kept = {} THEN dict_pop(st1.phantoms, view)
                                 ELSE dict_set(st1.phantoms, view, kept)]
    IN  IF ~args.show_local /\ ~args.show_remote THEN [st0 EXCEPT !.ran = FALSE]
        ELSE With(merged_regions(doc),
                  LAMBDA img_regs :
                    With(process_regions(st0, doc, img_regs, Len(img_regs), args,
                                         effective_max_width(args.max_width), view, files, net),
                         LAMBDA st1 : IF st1.raised THEN st1 ELSE EraseLeftover(st1)))

\* Faulty variant of hide_images: the view's cached URL data goes as well
hide_images_drops_cache(phantoms, cache, host, view) ==
    LET stored == dict_get(phantoms, view, {})
    IN  [PassState(dict_pop(phantoms, view), dict_pop(cache, view),
                   erase_phantoms(host, {p.key : p \in stored}))
            EXCEPT !.erases = stored]

\* ImageHandler._erase_phantoms / hide_images: erase every stored key (the
\* lookup creates the entry) and drop the view's entry
hide_images(phantoms, cache, host, view) ==
    LET stored == dict_get(phantoms, view, {})
    IN  [PassState(dict_pop(phantoms, view), cache,
                   erase_phantoms(host, {p.key : p \in stored}))
            EXCEPT !.erases = stored]

\* Faulty variant of on_close: the cached URL data of the view stays
on_close_keeps_cache(phantoms, cache, host, view) ==
    LET stored == dict_get(phantoms, view, {})
    IN  [PassState(dict_pop(phantoms, view), cache,
                   erase_phantoms(host, {p.key : p \in stored}))
            EXCEPT !.erases = stored]

\* ImageHandler.on_close
on_close(phantoms, cache, host, view) ==
    [hide_images(phantoms, cache, host, view) EXCEPT !.cache = dict_pop(cache, view)]

\* MarkdownImagesPlugin._update_images: hide_images, then show_images
update_images(phantoms, cache, host, doc, args, view, files, net) ==
    With(hide_images(phantoms, cache, host, view),
         LAMBDA hidden :
            With(show_images(hidden.phantoms, hidden.cache, hidden.host, doc, args,
                             view, files, net),
                 LAMBDA shown : [shown EXCEPT !.erases = hidden.erases \cup shown.erases]))

\* MarkdownImagesPlugin.on_load / on_post_save: settings holds the two show
\* flags of the event, img_maxwidth and base_path; ext_ok is the answer of
\* _should_run_for_extension
on_event(phantoms, cache, host, doc, settings, ext_ok, view, files, net) ==
    IF ~settings.show_local /\ ~settings.show_remote
    THEN [PassState(phantoms, cache, host) EXCEPT !.ran = FALSE]
    ELSE IF ~ext_ok
    THEN [PassState(phantoms, cache, host) EXCEPT !.ran = FALSE]
    ELSE update_images(phantoms, cache, host, doc, settings, view, files, net)

\* ------------------------------------------------------------------------
\* The state machine
\* ------------------------------------------------------------------------

VARIABLES
    doc,                 \* the text of the view
    files,               \* the file system: path -> [exists, data]
    net,                 \* the servers: URL -> answer
    phantoms,            \* ImageHandler.phantoms: view id -> set of (key, html)
    cached_remote_urls,  \* ImageHandler.cached_remote_urls: view id -> URL -> bytes
    host,                \* the phantoms the editor shows for the view (a bag)
    fetched_urls,        \* history: URLs whose bytes were fetched since the last close
    last,                \* history: the last operation
    arg,                 \* the argument of a helper function applied on its own
    result               \* and its result

vars == <<doc, files, net, phantoms, cached_remote_urls, host, fetched_urls, last,
          arg, result>>

TheView == CHOOSE v \in ViewIds : TRUE

\* Documents.  ")" closes a link, "x" is other text, "{w}" an attribute block.
DocSameLine     == <<"a", ")", "x", "b", ")">>
DocFileAndAttrs == <<"f", "a", ">", ")", "\n", " ", "a", " ", "b", ")", "{", "w", "}">>
DocSameUrlTwice == <<"h", "a", ")", "\n", "h", "a", ")">>
DocRemoteLocal  == <<"h", "a", ")", "\n", "b", ")">>
DocSvgMixed     == <<"h", "s", ")", "x", "h", "a", ")", "{", "w", "}">>

FileMissing == [exists |-> FALSE, data |-> <<>>]
FileWith(data) == [exists |-> TRUE, data |-> data]

PathA == <<ViewFolder, "a">>
PathB == <<ViewFolder, "b">>
PathAB == <<ViewFolder, "a", " ", "b">>
PathBaseB == <<BaseFolder, "b">>
UrlA == <<"h", "a">>

\* A workspace: the texts its document goes through while it is edited, and
\* the files and URLs that change while it is open
Workspaces ==
    { [docs |-> {DocSameLine, DocFileAndAttrs}, paths |-> {PathA, PathB}, urls |-> {}],
      [docs |-> {DocSameUrlTwice, DocRemoteLocal, DocSvgMixed}, paths |-> {PathB},
       urls |-> {UrlA}] }

Docs == UNION {w.docs : w \in Workspaces}

\* Documents holding text that cannot be decoded: in a link, in the rest of
\* a line between two links, and after a remote link
DocUndecodableLink == <<"a", ")", "\n", "u", ")">>
DocUndecodableGap == <<"a", "?", "\n", "b", ")">>
DocUndecodableLine == <<"h", "a", ")", "?">>

DecodeWorkspace ==
    [docs |-> {DocUndecodableLink, DocUndecodableGap, DocUndecodableLine},
     paths |-> {PathA}, urls |-> {UrlA}]

Workspace(d) == CHOOSE w \in Workspaces \cup {DecodeWorkspace} : d \in w.docs

\* What each file and each URL may hold
FileChoices(path) ==
    IF path = PathA THEN {FileWith(PngSmall), FileMissing}
    ELSE IF path = PathB THEN {FileWith(GifSmall), FileWith(JpegNoFrame)}
    ELSE {FileWith(PngSmall)}

NetChoices(url) == {NetData(PngSmall), NetData(Junk), NetOpenError, NetReadError}

InitialFiles == [q \in {PathA, PathB, PathAB, PathBaseB} |->
                    IF q = PathB THEN FileWith(GifSmall) ELSE FileWith(PngSmall)]

InitialNet == [u \in {UrlA} |-> NetData(PngSmall)]

\* Settings values and command arguments: every combination of the show
\* flags with img_maxwidth and base_path unset, one with a small
\* img_maxwidth and one with base_path
ArgSets ==
    {ShowArgs(NoneWidth, sl, sr, <<>>) : sl \in BOOLEAN, sr \in BOOLEAN}
    \cup {ShowArgs(WidthOf(2), TRUE, TRUE, <<>>),
          ShowArgs(NoneWidth, TRUE, FALSE, <<BaseFolder>>)}

\* URLs in a fetch log whose bytes came back
FetchedOk(fetches) == {fetches[i].url : i \in {k \in DOMAIN fetches : fetches[k].ok}}

\* The history record of an operation that gave res in the current state:
\*   ran       it got past its early returns
\*   raised    an exception left it, with its cause
\*   hidden    for a hide or a close, the number of stored phantoms erased
\*   uncached  for a close, the number of cached URLs dropped
\*   readded   a phantom stored before the operation was erased and added again
\*   fetches   the number of calls of urlopen
\*   refetched bytes came back for a URL whose bytes had come back before,
\*             earlier in the operation or since the last close
\*   failed    the URLs for which urlopen or read raised
\*   retried   urlopen was called again for a URL after it had failed in
\*             the operation
Record(op, res) ==
    [op |-> op, ran |-> res.ran, raised |-> res.raised, cause |-> res.cause,
     hidden |-> IF op \in {"hide", "close"} THEN Cardinality(res.erases) ELSE 0,
     uncached |-> IF op = "close"
                  THEN Cardinality(DOMAIN dict_get(cached_remote_urls, TheView, EmptyDict))
                  ELSE 0,
     readded |-> \E p \in dict_get(phantoms, TheView, {}) :
                    p \in res.erases /\ p \in Range(res.adds),
     fetches |-> Len(res.fetches),
     refetched |-> \E i \in DOMAIN res.fetches :
                      /\ res.fetches[i].ok
                      /\ \/ res.fetches[i].url \in fetched_urls
                         \/ \E j \in 1..(i - 1) :
                                res.fetches[j].ok /\ res.fetches[j].url = res.fetches[i].url,
     failed |-> {res.fetches[i].url : i \in {k \in DOMAIN res.fetches : ~res.fetches[k].ok}},
     retried |-> \E i \in DOMAIN res.fetches :
                    /\ ~res.fetches[i].ok
                    /\ \E j \in (i + 1)..Len(res.fetches) :
                            res.fetches[j].url = res.fetches[i].url]

\* The history record of a change of the environment, and of the start
Changed(op) ==
    [op |-> op, ran |-> FALSE, raised |-> FALSE, cause |-> "", hidden |-> 0,
     uncached |-> 0, readded |-> FALSE, fetches |-> 0, refetched |-> FALSE,
     failed |-> {}, retried |-> FALSE]

Init ==
    /\ doc \in Docs
    /\ files = InitialFiles
    /\ net = InitialNet
    /\ phantoms = EmptyDict
    /\ cached_remote_urls = EmptyDict
    /\ host = EmptyBag
    /\ fetched_urls = {}
    /\ last = Changed("init")
    /\ arg = <<>>
    /\ result = <<>>

\* The result res of a handler becomes the new state
Apply(op, res) ==
    /\ phantoms' = res.phantoms
    /\ cached_remote_urls' = res.cache
    /\ host' = res.host
    /\ fetched_urls' = fetched_urls \cup FetchedOk(res.fetches)
    /\ last' = Record(op, res)
    /\ UNCHANGED <<doc, files, net, arg, result>>

\* What the handlers do in the current state
ShowResult(args) ==
    show_images(phantoms, cached_remote_urls, host, doc, args, TheView, files, net)

HideResult == hide_images(phantoms, cached_remote_urls, host, TheView)

EventResult(settings, ext_ok) ==
    on_event(phantoms, cached_remote_urls, host, doc, settings, ext_ok, TheView, files, net)

CloseResult == on_close(phantoms, cached_remote_urls, host, TheView)

\* MarkdownImagesShowCommand.run
ShowStep(args) == \E res \in {ShowResult(args)} : Apply("show", res)

ShowCommand == \E args \in ArgSets : ShowStep(args)

\* MarkdownImagesHideCommand.run
HideCommand == \E res \in {HideResult} : Apply("hide", res)

\* MarkdownImagesPlugin.on_load
LoadStep(settings, ext_ok) ==
    \E res \in {EventResult(settings, ext_ok)} : Apply("on_load", res)

OnLoad == \E settings \in ArgSets, ext_ok \in BOOLEAN : LoadStep(settings, ext_ok)

\* MarkdownImagesPlugin.on_post_save
SaveStep(settings, ext_ok) ==
    \E res \in {EventResult(settings, ext_ok)} : Apply("on_post_save", res)

OnPostSave == \E settings \in ArgSets, ext_ok \in BOOLEAN : SaveStep(settings, ext_ok)

\* MarkdownImagesPlugin.on_close
OnClose ==
    \E res \in {CloseResult} :
        /\ phantoms' = res.phantoms
        /\ cached_remote_urls' = res.cache
        /\ host' = res.host
        /\ fetched_urls' = {}
        /\ last' = Record("close", res)
        /\ UNCHANGED <<doc, files, net, arg, result>>

\* The user edits the text
EditDocument ==
    /\ doc' \in Workspace(doc).docs \ {doc}
    /\ last' = Changed("edit")
    /\ UNCHANGED <<files, net, phantoms, cached_remote_urls, host, fetched_urls, arg, result>>

\* A file is written or removed
ChangeFile ==
    \E path \in Workspace(doc).paths :
        /\ \E f \in FileChoices(path) \ {files[path]} : files' = [files EXCEPT ![path] = f]
        /\ last' = Changed("file")
        /\ UNCHANGED <<doc, net, phantoms, cached_remote_urls, host, fetched_urls, arg, result>>

\* A server changes its answer
ChangeServer ==
    \E url \in Workspace(doc).urls :
        /\ \E n \in NetChoices(url) \ {net[url]} : net' = [net EXCEPT ![url] = n]
        /\ last' = Changed("server")
        /\ UNCHANGED <<doc, files, phantoms, cached_remote_urls, host, fetched_urls, arg, result>>

Next ==
    \/ ShowCommand
    \/ HideCommand
    \/ OnLoad
    \/ OnPostSave
    \/ OnClose
    \/ EditDocument
    \/ ChangeFile
    \/ ChangeServer

Spec == Init /\ [][Next]_vars

\* The same handlers on the documents that hold undecodable text
InitDecode ==
    /\ doc \in DecodeWorkspace.docs
    /\ files = InitialFiles
    /\ net = InitialNet
    /\ phantoms = EmptyDict
    /\ cached_remote_urls = EmptyDict
    /\ host = EmptyBag
    /\ fetched_urls = {}
    /\ last = Changed("init")
    /\ arg = <<>>
    /\ result = <<>>

SpecDecode == InitDecode /\ [][Next]_vars

\* ------------------------------------------------------------------------
\* The helper functions applied on their own: arg holds the input, result
\* the output once last.op names the function
\* ------------------------------------------------------------------------

\* Everything but arg stands still
Idle ==
    /\ doc = <<>>
    /\ files = InitialFiles
    /\ net = InitialNet
    /\ phantoms = EmptyDict
    /\ cached_remote_urls = EmptyDict
    /\ host = EmptyBag
    /\ fetched_urls = {}
    /\ last = Changed("input")
    /\ result = <<>>

Returned(op) ==
    /\ last.op = "input"
    /\ last' = Changed(op)
    /\ UNCHANGED <<doc, files, net, phantoms, cached_remote_urls, host, fetched_urls, arg>>

\* Region merging (show_images, lines 113-137) over every text of up to
\* MaxDocLen characters: link characters, whitespace and other text
MaxDocLen == 5

MergeTexts == SeqsUpTo({"a", " ", "\n", "x"}, MaxDocLen)

InitMerge == Idle /\ arg \in MergeTexts

MergeStep == Returned("merge") /\ result' = merged_regions(arg)

SpecMerge == InitMerge /\ [][MergeStep]_vars

\* Attribute extraction over every one-line text made of up to MaxPieces
\* pieces, a piece being a link with its closing bracket, an attribute
\* block, other text or a space: the attributes of each link of the line,
\* for a 3 x 2 image
MaxPieces == 4

LinePieces == {<<"a", ")">>, <<"{", "w", "}">>, <<"x">>, <<" ">>}

RECURSIVE Concat(_)
Concat(ps) == IF ps = <<>> THEN <<>> ELSE Head(ps) \o Concat(Tail(ps))

AttrTexts == {Concat(ps) : ps \in SeqsUpTo(LinePieces, MaxPieces)}

line_attributes(text) ==
    LET img_regs == merged_regions(text)
    IN  [i \in DOMAIN img_regs |->
            get_adjusted_img_attributes(SizeOf("png", 3, 2),
                                        effective_max_width(NoneWidth), text,
                                        line(text, img_regs[i]), img_regs[i])]

InitAttrs == Idle /\ arg \in AttrTexts

AttrsStep == Returned("attrs") /\ result' = line_attributes(arg)

SpecAttrs == InitAttrs /\ [][AttrsStep]_vars

\* Width capping over detected sizes and img_maxwidth settings: widths and
\* heights 1..MaxDim and sizes around the default cap, img_maxwidth unset,
\* negative, zero and 1..MaxDim
MaxDim == 4

ScaleInputs ==
    [w : 1..MaxDim \cup {DefaultMaxWidth - 1, DefaultMaxWidth, DefaultMaxWidth + 1,
                         2 * DefaultMaxWidth},
     h : 1..MaxDim \cup {DefaultMaxWidth \div 2},
     mw : {NoneWidth} \cup {WidthOf(n) : n \in (0 - 1)..MaxDim}]

\* A line with one link and no attribute block
PlainLink == <<"a", ")">>

scaled_attributes(in) ==
    get_adjusted_img_attributes(SizeOf("png", in.w, in.h), effective_max_width(in.mw),
                                PlainLink, line(PlainLink, Region(0, 1)), Region(0, 1))

InitScale == Idle /\ arg \in ScaleInputs

ScaleStep == Returned("scale") /\ result' = scaled_attributes(arg)

SpecScale == InitScale /\ [][ScaleStep]_vars

\* Header sniffing over byte streams: every prefix of a PNG, of a GIF and of
\* JPEG streams whose first segment has a length field 0..MaxSegLen, followed
\* by 0..MaxFill fill bytes and a start-of-frame segment, and streams of no
\* recognised format
MaxSegLen == 8

MaxFill == 2

RECURSIVE Fill(_)
Fill(n) == IF n = 0 THEN <<>> ELSE <<255>> \o Fill(n - 1)

\* SOI, an APP0 segment with length field seg_len, fill bytes, and a SOF0
\* segment of a 3 x 2 image
JpegStream(seg_len, fill) ==
    <<255, 216, 255, 224, 0, seg_len>> \o JFIF \o Fill(fill)
        \o <<255, 192, 0, 11, 8, 0, 2, 0, 3>>

Prefixes(data) == {SubSeq(data, 1, n) : n \in 0..Len(data)}

SniffStreams ==
    UNION {Prefixes(data) :
            data \in {PngSmall, GifSmall, JpegNoFrame, Junk, SvgPrefix}
                     \cup {JpegStream(l, k) : l \in 0..MaxSegLen, k \in 0..MaxFill}}

InitSniff == Idle /\ arg \in SniffStreams

SniffStep == Returned("sniff") /\ result' = get_image_size(arg)

SpecSniff == InitSniff /\ [][SniffStep]_vars

\* get_image_size step by step: result holds the position of the code (pc),
\* the stream position (pos), the stream position at which the current
\* iteration of the marker loop began (start), the pending skip (size), the
\* last marker byte (ftype), whether a skip was negative (neg) and, at the
\* end, the value returned or the exception raised (out).  The streams are
\* those of SniffStreams and JPEG streams whose first segment has the length
\* field 0, 1 or 6, followed by up to MaxTail bytes that are length fields,
\* fill bytes or start-of-frame markers.
MaxTail == 4

ScanStreams ==
    SniffStreams
    \cup {<<255, 216, 255, 224, 0, l>> \o JFIF \o tail :
            l \in {0, 1, 6}, tail \in SeqsUpTo({0, 1, 2, 192, 255}, MaxTail)}

ScanState(pc, pos, start, size, ftype, neg, out) ==
    [pc |-> pc, pos |-> pos, start |-> start, size |-> size, ftype |-> ftype,
     neg |-> neg, out |-> out]

\* return or raise
Done(s, out) == [s EXCEPT !.pc = "done", !.out = out]

\* Faulty variant of segment_skip: the marker byte is counted as well
segment_skip_marker(lenb) == BE16(lenb) - 3

\* size = struct.unpack('>H', f.read(2))[0] - 2
segment_skip(lenb) == BE16(lenb) - 2

InitScan ==
    /\ arg \in ScanStreams
    /\ result = ScanState("head", 0, 0, 0, 0, FALSE, SizeNone(""))
    /\ doc = <<>>
    /\ files = InitialFiles
    /\ net = InitialNet
    /\ phantoms = EmptyDict
    /\ cached_remote_urls = EmptyDict
    /\ host = EmptyBag
    /\ fetched_urls = {}
    /\ last = Changed("input")

ScanFrame == UNCHANGED <<doc, files, net, phantoms, cached_remote_urls, host,
                         fetched_urls, last, arg>>

\* Lines 371-391 and 409-417: the branches without a loop return at once;
\* the JPEG branch seeks to 0 with size = 2, ftype = 0
ReadHead ==
    /\ result.pc = "head"
    /\ result' = IF imghdr_what(Slice(arg, 0, 24)) = "jpeg"
                 THEN ScanState("seek", 0, 0, 2, 0, FALSE, SizeNone(""))
                 ELSE Done(result, get_image_size(arg))
    /\ ScanFrame

\* Line 397, f.seek(size, 1), at the start of an iteration.  A seek before
\* the start of the stream raises for a file and stops at 0 for a BytesIO.
SeekSegment ==
    /\ result.pc = "seek"
    /\ result' \in
        IF result.pos + result.size < 0
        THEN {Done(result, SizeNone("jpeg")),
              [result EXCEPT !.pc = "marker", !.start = result.pos, !.pos = 0,
                             !.neg = TRUE]}
        ELSE {[result EXCEPT !.pc = "marker", !.start = result.pos,
                             !.pos = result.pos + result.size,
                             !.neg = result.neg \/ result.size < 0]}
    /\ ScanFrame

\* Lines 398-401: one f.read(1); ord(b'') raises at the end of the stream
ReadMarker ==
    /\ result.pc = "marker"
    /\ result' = IF result.pos >= Len(arg) THEN Done(result, SizeNone("jpeg"))
                 ELSE IF arg[result.pos + 1] = 255
                 THEN [result EXCEPT !.pos = result.pos + 1]
                 ELSE [result EXCEPT !.pos = result.pos + 1, !.pc = "length",
                                     !.ftype = arg[result.pos + 1]]
    /\ ScanFrame

\* Line 402 and the loop test of line 396
ReadLength ==
    /\ result.pc = "length"
    /\ result' = LET lenb == Slice(arg, result.pos, result.pos + 2)
                 IN  IF Len(lenb) < 2 THEN Done(result, SizeNone("jpeg"))
                     ELSE [result EXCEPT
                             !.pos = result.pos + 2,
                             !.size = segment_skip(lenb),
                             !.pc = IF result.ftype >= 192 /\ result.ftype <= 207
                                    THEN "frame" ELSE "seek"]
    /\ ScanFrame

\* Lines 404-405: skip the precision byte, read height and width
ReadFrame ==
    /\ result.pc = "frame"
    /\ result' = LET dims == Slice(arg, result.pos + 1, result.pos + 5)
                 IN  IF Len(dims) < 4 THEN Done(result, SizeNone("jpeg"))
                     ELSE Done(result, SizeOf("jpeg", BE16(SubSeq(dims, 3, 4)),
                                                      BE16(SubSeq(dims, 1, 2))))
    /\ ScanFrame

ScanNext == ReadHead \/ SeekSegment \/ ReadMarker \/ ReadLength \/ ReadFrame

\* The function runs until it returns: nothing else is scheduled
SpecScan == InitScan /\ [][ScanNext]_vars /\ WF_vars(ScanNext)

\* ------------------------------------------------------------------------
\* Properties of the render pass, hide and close (specification Spec)
\* ------------------------------------------------------------------------

RenderOps == {"show", "on_load", "on_post_save"}

\* The cached URL data of the view
Cached == dict_get(cached_remote_urls, TheView, EmptyDict)

\* C1: a second show_images pass on an unchanged document, with the same
\* files, servers and settings, issues no add_phantom and no erase_phantoms
\* call and leaves the stored set as the first pass left it.  Stated for the
\* first passes that complete: from every reachable state and for every
\* argument set, run show_images, then run it again on the result.
C1_SecondPassIdle ==
    \A args \in ArgSets :
        \A r1 \in {ShowResult(args)} :
            (r1.ran /\ ~r1.raised) =>
                \A r2 \in {show_images(r1.phantoms, r1.cache, r1.host, doc, args,
                                       TheView, files, net)} :
                    /\ r2.adds = <<>>
                    /\ r2.erases = {}
                    /\ r2.phantoms = r1.phantoms

\* C2: no render operation is left by an exception of prepare_local_image
\* or prepare_remote_image: a span that fails to resolve is skipped and the
\* pass goes on.
C2_FailureContained == last.op \in RenderOps => last.cause # "prepare"

\* C3: after on_close the view has no entry in phantoms and none in
\* cached_remote_urls, and the host shows no phantom of the view, whatever
\* render, hide and close operations came before (passes that raised
\* included).
C3_CloseClears ==
    last.op = "close" =>
        /\ TheView \notin DOMAIN phantoms
        /\ TheView \notin DOMAIN cached_remote_urls
        /\ host = EmptyBag

\* A close that erased stored phantoms and dropped cached URL data
C3_Witness == last.op = "close" /\ last.hidden > 0 /\ last.uncached > 0

\* C4: between two closes the bytes of a URL come back from the network at
\* most once, in one pass or over several, whatever the bytes are.
C4_OneFetchPerUrl == ~last.refetched

\* C5: a hide step leaves cached_remote_urls as it is, drops the view's
\* entry of phantoms and leaves the host without phantoms of the view; and
\* every step other than a close keeps each cached (URL, bytes) entry.
C5_HideKeepsCache ==
    [][/\ last'.op = "hide" =>
            /\ cached_remote_urls' = cached_remote_urls
            /\ TheView \notin DOMAIN phantoms'
            /\ host' = EmptyBag
       /\ last'.op # "close" =>
            \A u \in DOMAIN Cached :
                /\ TheView \in DOMAIN cached_remote_urls'
                /\ u \in DOMAIN cached_remote_urls'[TheView]
                /\ cached_remote_urls'[TheView][u] = Cached[u]]_vars

\* A hide that erased stored phantoms while URL data was cached
C5_Witness == last.op = "hide" /\ last.hidden > 0 /\ Cached # EmptyDict

\* C6: no render operation (show command, on_load, on_post_save) erases a
\* phantom that was stored before it and adds the same phantom again.
C6_NoEraseAndReadd == last.op \in RenderOps => ~last.readded

\* The scheme of a link text is remote: present and not "file"
IsRemoteText(rel_p) == rel_p # <<>> /\ rel_p[1] = "h"

\* The link text ends in .svg
IsSvgText(rel_p) == rel_p # <<>> /\ rel_p[Len(rel_p)] = "s"

\* What C7 asks of the result r of a render operation run with the flags
\* of args in the current state
FetchGated(args, r) ==
    /\ \A i \in DOMAIN r.fetches :
            /\ IsRemoteText(r.fetches[i].url)
            /\ args.show_remote
            /\ ~IsSvgText(r.fetches[i].url)
            /\ ~r.fetches[i].in_cache
    /\ r.fetches # <<>> => r.fetches[1].url \notin DOMAIN Cached
    /\ ~args.show_remote =>
            /\ r.fetches = <<>>
            /\ \A i \in DOMAIN r.adds : r.adds[i].html.src.kind # "data"
            /\ \A i \in DOMAIN r.adds : r.adds[i].html.href.scheme = "file"
    /\ ~args.show_local =>
            /\ r.reads = <<>>
            /\ \A i \in DOMAIN r.adds : r.adds[i].html.src.kind # "url"
            /\ \A i \in DOMAIN r.adds : r.adds[i].html.href.scheme # "file"

\* C7: urlopen is called only for a remote link text, with show_remote on,
\* a path not ending in .svg and a URL the cache does not hold; with
\* show_remote off no render operation fetches or adds a remote phantom,
\* with show_local off none reads a file or adds a local phantom.
C7_FetchGating ==
    \A args \in ArgSets :
        /\ \A r \in {ShowResult(args)} : FetchGated(args, r)
        /\ \A r \in {EventResult(args, TRUE)} : FetchGated(args, r)

\* A show command that fetched a URL in a document which also holds an SVG
\* link
C7_Witness == last.op = "show" /\ last.fetches > 0 /\ doc = DocSvgMixed

\* ------------------------------------------------------------------------
\* Properties of the helper functions
\* ------------------------------------------------------------------------

\* Range r lies within span sp
InSpan(r, sp) == sp.a <= r.a /\ r.b <= sp.b

\* The text of d strictly between ranges r1 and r2 is whitespace only
GapIsWhitespace(d, r1, r2) == \A k \in (r1.b + 1)..r2.a : d[k] \in {" ", "\t", "\n"}

\* C8: the merged spans are in document order, every input range lies in
\* exactly one span, every span runs from the start of an input range to the
\* end of an input range, and two neighbouring ranges share a span exactly
\* when the text between them is whitespace only.
C8_MergeCorrect ==
    last.op = "merge" =>
        LET regs == find_by_selector(arg)
        IN  /\ \A i \in 1..(Len(result) - 1) : result[i].b <= result[i + 1].a
            /\ \A k \in DOMAIN regs :
                    Cardinality({i \in DOMAIN result : InSpan(regs[k], result[i])}) = 1
            /\ \A i \in DOMAIN result :
                    /\ \E k \in DOMAIN regs : regs[k].a = result[i].a
                    /\ \E k \in DOMAIN regs : regs[k].b = result[i].b
            /\ \A k \in 1..(Len(regs) - 1) :
                    (\E i \in DOMAIN result :
                        InSpan(regs[k], result[i]) /\ InSpan(regs[k + 1], result[i]))
                    <=> GapIsWhitespace(arg, regs[k], regs[k + 1])

\* Three fragments separated by whitespace merged into one span
C8_Witness ==
    /\ last.op = "merge"
    /\ Len(find_by_selector(arg)) = 3
    /\ Len(result) = 1

\* The link of range r is followed at once by its closing bracket and an
\* attribute block
HasOwnBlock(d, r) ==
    /\ r.b + 2 <= Len(d)
    /\ d[r.b + 1] = ")"
    /\ d[r.b + 2] = "{"

\* C9: the attributes of a link are the literal text of a brace block
\* exactly when such a block follows that link itself; a link without a
\* block of its own gets computed attributes.
C9_OwnBlockOnly ==
    last.op = "attrs" =>
        LET regs == merged_regions(arg)
        IN  \A i \in DOMAIN regs :
                result[i].attrs.kind = "literal" <=> HasOwnBlock(arg, regs[i])

\* C10: with no attribute block and a positive detected size the width is
\* min(w, cap), cap being img_maxwidth when it is positive and 1024
\* otherwise; for w > cap the height is h * cap / w, for w <= cap width and
\* height are as detected.
C10_ScalingLaw ==
    last.op = "scale" =>
        LET cap == IF arg.mw.set /\ arg.mw.v > 0 THEN arg.mw.v ELSE 1024
            out == result.attrs
        IN  /\ ~result.raised
            /\ out.kind = "computed"
            /\ out.w = Min2(arg.w, cap)
            /\ out.hden > 0
            /\ arg.w > cap => out.w = cap /\ out.hnum * arg.w = arg.h * cap * out.hden
            /\ arg.w <= cap => out.w = arg.w /\ out.hnum = arg.h * out.hden

\* An image wider than a configured img_maxwidth, scaled down
C10_Witness ==
    /\ last.op = "scale"
    /\ arg.mw.set
    /\ arg.mw.v > 0
    /\ arg.w > arg.mw.v
    /\ result.attrs.w = arg.mw.v

\* C11: get_image_size raises for no byte stream: a truncated or corrupt
\* PNG, GIF or JPEG gives (None, None, format-or-None) as a value.
C11_SniffNeverRaises == last.op = "sniff" => ~result.raised

\* C12: no render operation is left by a UnicodeDecodeError: a span whose
\* text, line or neighbouring text cannot be decoded is skipped and the pass
\* goes on to the other spans and to the erasing of leftover phantoms.
C12_DecodeContained == last.op \in RenderOps => last.cause # "decode"

\* The overlay set a show_images call computes: the values of its local
\* dictionary phantoms, and nothing when no kind of image is to be shown
NewOverlays(r) == IF r.ran THEN {r.newp[k] : k \in DOMAIN r.newp} ELSE {}

\* C13: after a show_images call that returns, whatever the show flags, the
\* stored set is the newly computed set: every stored phantom that is not in
\* the new set was erased from the host and from the store, and the view has
\* no entry when the new set is empty.
C13_StoreIsNewSet ==
    \A args \in ArgSets :
        \A r \in {ShowResult(args)} :
            ~r.raised =>
                /\ dict_get(r.phantoms, TheView, {}) = NewOverlays(r)
                /\ \A p \in dict_get(phantoms, TheView, {}) \ NewOverlays(r) :
                        p \in r.erases /\ p \notin DOMAIN r.host
                /\ NewOverlays(r) = {} => TheView \notin DOMAIN r.phantoms

\* C14: no render operation is left by an exception of
\* get_adjusted_img_attributes: an image of known format whose width and
\* height are undetermined, on a link without attribute block, is skipped or
\* shown without width and height, and the pass goes on.
C14_NoGeometryNoError == last.op \in RenderOps => last.cause # "attributes"

\* C15: in every state between operations no two stored phantoms of the
\* view have the same key.
C15_KeysUnique ==
    \A p, q \in dict_get(phantoms, TheView, {}) : p.key = q.key => p = q

\* The link texts of the spans of d that are remote and not SVG
RemoteSpans(d) ==
    LET img_regs == merged_regions(d)
    IN  {t \in {substr(d, img_regs[i]) : i \in DOMAIN img_regs} :
            IsRemoteText(t) /\ ~IsSvgText(t)}

\* What C16 asks of the result r of the next render operation, run with
\* show_remote on: a URL that has a span and whose fetch just failed is
\* fetched again, and no cached URL is fetched
RetriesFailed(r) ==
    /\ \A u \in last.failed \cap RemoteSpans(doc) :
            \E i \in DOMAIN r.fetches : r.fetches[i].url = u
    /\ \A i \in DOMAIN r.fetches : r.fetches[i].url \notin DOMAIN Cached

\* C16: after a render operation in which the fetch of a URL failed, the
\* cache has no entry for the URL and the operation did not try the URL
\* again; the next render operation with show_remote on fetches the URL
\* again if the document has a span for it; a cached URL is not fetched
\* before the close.
C16_FailedFetchRetried ==
    last.op \in RenderOps =>
        /\ \A u \in last.failed : u \notin DOMAIN Cached
        /\ ~last.retried
        /\ \A args \in {a \in ArgSets : a.show_remote} :
                /\ \A r \in {ShowResult(args)} : RetriesFailed(r)
                /\ \A r \in {EventResult(args, TRUE)} : RetriesFailed(r)

\* C17: after every show_images, hide_images or on_close call that ran and
\* returned, the phantoms the host shows for the view are the stored ones.
C17_HostIsStore ==
    (last.op \in RenderOps \cup {"hide", "close"} /\ last.ran /\ ~last.raised) =>
        DOMAIN host = dict_get(phantoms, TheView, {})

\* C18: get_image_size comes to an end on every byte stream, with the value
\* or the exception of the function; no seek of the JPEG marker scan goes
\* before the start of the stream, every read of a fill byte advances the
\* position, and every iteration of the marker loop begins at a later
\* position than the one before.
C18_SniffTerminates ==
    /\ <>(result.pc = "done")
    /\ [](result.pc = "done" => result.out = get_image_size(arg))
    /\ [](result.pc = "seek" => result.pos + result.size >= 0)
    /\ [][/\ (result.pc = "marker" /\ result'.pc = "marker") => result'.pos > result.pos
          /\ (result.pc = "length" /\ result'.pc = "seek") => result'.pos > result.start]_vars

\* A scan that skipped backwards and came to an end
C18_Witness == result.pc = "done" /\ result.neg

====
